---- MODULE Spec2Model ----
(***************************************************************************)
(* Round-Robin scheduling policy (RRSchedulingPolicy.cpp).                 *)
(*                                                                         *)
(* The policy object is a reactive state machine driven by four calls:    *)
(* newProcess, dispatch, preempt and resetPolicy.  The policy state is     *)
(* readyQueue, runningPid, quantumClock and quantum.  The remaining        *)
(* variables record what a caller observes (the last call and its return   *)
(* value) and the history the properties below speak about.                *)
(***************************************************************************)
EXTENDS Integers, Sequences, FiniteSets

VARIABLES
  readyQueue,    \* queue<Pid> readyQueue, head first
  runningPid,    \* Pid runningPid
  quantumClock,  \* int quantumClock
  quantum,       \* int quantum
  lastOp,        \* the last call made on the policy
  lastRet,       \* what that call returned ("void" for the void methods)
  streak,        \* preempt() calls made in a row since the last dispatch of a process
  arrived,       \* pids passed to newProcess since the last reset, in first-call order
  dispatched,    \* pids returned by dispatch() since the last reset
  waiting,       \* pids preempted and not yet dispatched again
  ahead,         \* for a waiting pid: queue entries that were ahead of it when preempted
  cpuBusy,       \* the caller's view: a process returned by dispatch() occupies the cpu
  finished       \* pids the caller has seen run to completion since the last reset

policyVars == <<readyQueue, runningPid, quantumClock, quantum>>
callVars   == <<lastOp, lastRet>>
vars       == <<readyQueue, runningPid, quantumClock, quantum, lastOp, lastRet,
                streak, arrived, dispatched, waiting, ahead, cpuBusy, finished>>

----------------------------------------------------------------------------
(* Bounds of the model. *)

\* pids are 1..NumPids
NumPids == 2
\* largest quantum a policy is constructed with
MaxQuantum == 3
\* quanta down to -NegQuantum are tried too: the constructor takes any int
NegQuantum == 1
\* entries the ready queue may hold beyond NumPids before pushes are cut off
ExtraQueue == 0
\* preempt() is not followed below a clock of -ClockFloor
ClockFloor == 2

Pids == 1..NumPids
MaxQueue == NumPids + ExtraQueue
QuantumValues == (0 - NegQuantum)..MaxQuantum

\* the reserved "no process" Pid
IDLE == 0

\* streak value when the calls since the last dispatch were not preempt() alone
NoStreak == 0 - 1

----------------------------------------------------------------------------
(* Helpers on sequences. *)

Range(s) == {s[i] : i \in 1..Len(s)}

RemoveFirst(s, x) ==
  IF x \in Range(s)
  THEN LET i == CHOOSE k \in 1..Len(s) : s[k] = x /\ \A j \in 1..(k - 1) : s[j] # x
       IN  SubSeq(s, 1, i - 1) \o SubSeq(s, i + 1, Len(s))
  ELSE s

NoAhead == [p \in Pids |-> <<>>]

Registered == Range(arrived)

Count(s, x) == Cardinality({i \in 1..Len(s) : s[i] = x})

----------------------------------------------------------------------------
(* The policy's methods: policy state and return value. *)

\* what the base class constructor leaves in runningPid
SchedulingPolicyInit == runningPid = IDLE

\* queue<Pid> empty; swap(readyQueue, empty)
EmptyQueue == <<>>

\* a slip: the new pid is put at the head of the queue
EnqueueFront(q, pid) == <<pid>> \o q

\* readyQueue.push(pid) of newProcess
Enqueue(q, pid) == Append(q, pid)

\* a slip: the preempted pid is not put back
RequeueLost(q, pid) == q

\* a slip: the preempted pid is put back at the head of the queue
RequeueFront(q, pid) == <<pid>> \o q

\* readyQueue.push(this->runningPid) of preempt
Requeue(q, pid) == Append(q, pid)

\* a slip: the cycle run as part of the dispatch is not counted
ArmClockFull(qm) == qm

\* quantumClock = quantum; quantumClock -= 1 of dispatch
ArmClock(qm) == qm - 1

\* a slip: the clock is let run one cycle past zero
ExpiredLate(clock) == clock = 0 - 1

\* if (quantumClock == 0) of preempt
Expired(clock) == clock = 0

\* a slip: the cycle is not counted
TickNone(clock) == clock

\* quantumClock -= 1 of preempt
Tick(clock) == clock - 1

\* void resetPolicy()
resetPolicy ==
  /\ readyQueue' = EmptyQueue
  /\ quantumClock' = quantum
  /\ UNCHANGED <<runningPid, quantum>>
  /\ lastOp' = "resetPolicy"
  /\ lastRet' = "void"

\* void newProcess(Pid pid)
newProcess(pid) ==
  /\ Len(readyQueue) < MaxQueue
  /\ readyQueue' = Enqueue(readyQueue, pid)
  /\ UNCHANGED <<runningPid, quantumClock, quantum>>
  /\ lastOp' = "newProcess"
  /\ lastRet' = "void"

\* a slip: an idle dispatch also clears the runner and re-arms the clock
dispatchClearing ==
  /\ IF readyQueue = <<>>
     THEN /\ runningPid' = IDLE
          /\ quantumClock' = quantum
          /\ UNCHANGED <<readyQueue, quantum>>
          /\ lastRet' = IDLE
     ELSE /\ runningPid' = Head(readyQueue)
          /\ readyQueue' = Tail(readyQueue)
          /\ quantumClock' = quantum - 1
          /\ UNCHANGED quantum
          /\ lastRet' = runningPid'
  /\ lastOp' = "dispatch"

\* a slip: dispatch puts the previous runner back behind the queue
dispatchRequeuing ==
  /\ IF readyQueue = <<>>
     THEN /\ UNCHANGED policyVars
          /\ lastRet' = IDLE
     ELSE /\ runningPid' = Head(readyQueue)
          /\ readyQueue' = IF runningPid # IDLE
                           THEN Append(Tail(readyQueue), runningPid)
                           ELSE Tail(readyQueue)
          /\ quantumClock' = quantum - 1
          /\ UNCHANGED quantum
          /\ lastRet' = runningPid'
  /\ lastOp' = "dispatch"

\* Pid dispatch()
dispatch ==
  /\ IF readyQueue = <<>>
     THEN /\ UNCHANGED policyVars
          /\ lastRet' = IDLE
     ELSE /\ runningPid' = Head(readyQueue)
          /\ readyQueue' = Tail(readyQueue)
          /\ quantumClock' = ArmClock(quantum)
          /\ UNCHANGED quantum
          /\ lastRet' = runningPid'
  /\ lastOp' = "dispatch"

\* bool preempt()
preempt ==
  /\ IF Expired(quantumClock)
     THEN /\ Len(readyQueue) < MaxQueue
          /\ readyQueue' = Requeue(readyQueue, runningPid)
          /\ runningPid' = IDLE
          /\ UNCHANGED <<quantumClock, quantum>>
          /\ lastRet' = TRUE
     ELSE /\ quantumClock > 0 - ClockFloor
          /\ quantumClock' = Tick(quantumClock)
          /\ UNCHANGED <<readyQueue, runningPid, quantum>>
          /\ lastRet' = FALSE
  /\ lastOp' = "preempt"

----------------------------------------------------------------------------
(* The calls as the caller makes them: the method plus the history. *)

\* RRSchedulingPolicy(int simQuantum): quantum = simQuantum; resetPolicy()
Init ==
  /\ quantum \in QuantumValues
  /\ SchedulingPolicyInit
  /\ readyQueue = <<>>
  /\ quantumClock = quantum
  /\ lastOp = "construct"
  /\ lastRet = "void"
  /\ streak = NoStreak
  /\ arrived = <<>>
  /\ dispatched = {}
  /\ waiting = {}
  /\ ahead = NoAhead
  /\ cpuBusy = FALSE
  /\ finished = {}

NewProcess(pid) ==
  /\ newProcess(pid)
  /\ arrived' = IF pid \in Registered THEN arrived ELSE Append(arrived, pid)
  /\ streak' = NoStreak
  /\ UNCHANGED <<dispatched, waiting, ahead, cpuBusy, finished>>

Dispatch ==
  /\ dispatch
  /\ IF readyQueue = <<>>
     THEN /\ UNCHANGED <<dispatched, waiting, ahead, cpuBusy>>
          /\ streak' = NoStreak
     ELSE LET r == Head(readyQueue) IN
          /\ dispatched' = IF r \in Pids THEN dispatched \cup {r} ELSE dispatched
          /\ waiting' = IF r \in waiting /\ r \notin Range(ahead[r])
                        THEN waiting \ {r} ELSE waiting
          /\ ahead' = [p \in Pids |->
                         IF p \in waiting' THEN RemoveFirst(ahead[p], r) ELSE <<>>]
          /\ cpuBusy' = (lastRet' # IDLE)
          /\ streak' = IF lastRet' # IDLE THEN 0 ELSE NoStreak
  /\ UNCHANGED <<arrived, finished>>

Preempt ==
  /\ preempt
  /\ streak' = IF streak >= 0 /\ streak < quantum THEN streak + 1 ELSE NoStreak
  /\ IF lastRet' /\ runningPid \in Pids
     THEN /\ waiting' = waiting \cup {runningPid}
          /\ ahead' = [ahead EXCEPT ![runningPid] = readyQueue]
     ELSE UNCHANGED <<waiting, ahead>>
  /\ cpuBusy' = IF lastRet' THEN FALSE ELSE cpuBusy
  /\ UNCHANGED <<arrived, dispatched, finished>>

ResetPolicy ==
  /\ resetPolicy
  /\ streak' = NoStreak
  /\ arrived' = <<>>
  /\ dispatched' = {}
  /\ waiting' = {}
  /\ ahead' = NoAhead
  /\ cpuBusy' = FALSE
  /\ finished' = {}

\* Any caller: the four calls in any order.
Next ==
  \/ \E pid \in Pids : NewProcess(pid)
  \/ Dispatch
  \/ Preempt
  \/ ResetPolicy

Spec == Init /\ [][Next]_vars

\* One simulation run of any caller: no resetPolicy() after construction.
NextRun ==
  \/ \E pid \in Pids : NewProcess(pid)
  \/ Dispatch
  \/ Preempt

SpecRun == Init /\ [][NextRun]_vars

----------------------------------------------------------------------------
(* The simulator as the contract describes it: each pid arrives at most    *)
(* once per run, dispatch() is called when the cpu is idle, preempt() once *)
(* per cycle while a process runs, a running process may finish, and       *)
(* resetPolicy() starts a new run.                                         *)

DriverArrive(pid) ==
  /\ pid \notin Registered
  /\ NewProcess(pid)

DriverDispatch ==
  /\ ~cpuBusy
  /\ Dispatch

DriverCycle ==
  /\ cpuBusy
  /\ Preempt

\* the running process completes: the policy is not told
DriverFinish ==
  /\ cpuBusy
  /\ cpuBusy' = FALSE
  /\ finished' = finished \cup {runningPid}
  /\ streak' = NoStreak
  /\ UNCHANGED <<policyVars, callVars, arrived, dispatched, waiting, ahead>>

DriverReset == ResetPolicy

NextDriver ==
  \/ \E pid \in Pids : DriverArrive(pid)
  \/ DriverDispatch
  \/ DriverCycle
  \/ DriverFinish
  \/ DriverReset

SpecDriver == Init /\ [][NextDriver]_vars

\* One run in which no process finishes, the simulator's steps weakly fair.
NextLive ==
  \/ \E pid \in Pids : DriverArrive(pid)
  \/ DriverDispatch
  \/ DriverCycle

SpecLive == Init /\ [][NextLive]_vars /\ WF_vars(DriverDispatch \/ DriverCycle)

\* One run in which every arrival precedes the first dispatch() and no
\* process finishes.
ArriveFirst(pid) ==
  /\ lastOp \in {"construct", "newProcess"}
  /\ DriverArrive(pid)

NextRotate ==
  \/ \E pid \in Pids : ArriveFirst(pid)
  \/ DriverDispatch
  \/ DriverCycle

SpecRotate == Init /\ [][NextRotate]_vars

----------------------------------------------------------------------------
(* Properties. *)

\* position of a registered pid in the order of arrival, and the pid after it
\* in that order taken cyclically
ArrivalIndex(p) == CHOOSE i \in 1..Len(arrived) : arrived[i] = p

Successor(p) == arrived[(ArrivalIndex(p) % Len(arrived)) + 1]

\* C1: for every quantum >= 1, when preempt() is called repeatedly right after
\* a dispatch() that returned a process, with no other call in between, the
\* calls numbered 1..quantum-1 return false and call number quantum returns
\* true (streak is the number of such calls made so far).
C1_QuantumCycles ==
  (lastOp = "preempt" /\ quantum >= 1 /\ streak >= 1 /\ streak <= quantum)
    => (lastRet = (streak = quantum))

\* the quantum-th preempt() in a row after a dispatch has just returned true
C1_Witness ==
  /\ lastOp = "preempt"
  /\ quantum = MaxQuantum
  /\ streak = quantum
  /\ lastRet = TRUE

\* C2: FIFO dispatch order within a run: if the first newProcess(A) precedes
\* the first newProcess(B), then B has been returned by dispatch() only if A
\* has been returned by dispatch() already.
C2_FifoOrder ==
  \A i \in 1..Len(arrived) : \A j \in 1..Len(arrived) :
    (i < j /\ arrived[j] \in dispatched) => arrived[i] \in dispatched

\* every pid has arrived and been dispatched, with a preemption in between
C2_Witness ==
  /\ Len(arrived) = NumPids
  /\ dispatched = Pids
  /\ waiting # {}
  /\ lastOp = "dispatch"
  /\ lastRet = arrived[NumPids]

\* C3: when preempt() returns true for running process P, P is appended at
\* the tail of readyQueue, and dispatch() does not return P again while an
\* entry that was in readyQueue at that moment is still to be dispatched
\* (ahead[P] holds those entries; when P itself was among them, the dispatch
\* that returns P takes that earlier entry).
C3_PreemptedToTail ==
  [][ /\ (lastOp' = "preempt" /\ lastRet' /\ runningPid \in Pids)
         => readyQueue' = Append(readyQueue, runningPid)
      /\ (lastOp' = "dispatch" /\ readyQueue # <<>> /\ Head(readyQueue) \in waiting)
         => \/ ahead[Head(readyQueue)] = <<>>
            \/ Head(readyQueue) \in Range(ahead[Head(readyQueue)])
    ]_vars

\* a process has just been preempted behind a waiting entry
C3_Witness ==
  /\ lastOp = "preempt"
  /\ lastRet = TRUE
  /\ \E p \in waiting :
       /\ ahead[p] # <<>>
       /\ p \notin Range(ahead[p])
       /\ readyQueue = Append(ahead[p], p)

\* C4: under a simulator that registers each pid at most once per run, calls
\* dispatch() only when the cpu is idle and preempt() only while a process
\* runs, each pid occurs at most once across readyQueue and runningPid, also
\* after a resetPolicy() that begins a new run (stated for quantum >= 1).
C4_NoDuplicate ==
  (quantum >= 1) =>
    \A p \in Pids : Count(readyQueue, p) + (IF runningPid = p THEN 1 ELSE 0) <= 1

\* C5: under that simulator, while no process has finished in the current run,
\* every pid passed to newProcess since the last resetPolicy() is an entry of
\* readyQueue or is runningPid.
C5_NoProcessLost ==
  (finished = {}) =>
    \A p \in Registered : p \in Range(readyQueue) \/ p = runningPid

\* every pid has arrived, nothing finished, and a process was just requeued
C5_Witness ==
  /\ finished = {}
  /\ Registered = Pids
  /\ lastOp = "preempt"
  /\ lastRet = TRUE
  /\ Len(readyQueue) = NumPids

\* C6: in a run without completions and with the simulator's dispatch and
\* preempt steps weakly fair, for quantum >= 1 every registered pid is
\* eventually returned by dispatch(), and dispatch() never returns IDLE while
\* a registered pid has not been dispatched yet.
C6_EventuallyDispatched ==
  /\ []((lastOp = "dispatch" /\ lastRet = IDLE) => (Registered \subseteq dispatched))
  /\ \A p \in Pids : (quantum >= 1 /\ p \in Registered) ~> (p \in dispatched)

\* the last pid to arrive is dispatched while a preempted one waits
C6_Witness ==
  /\ quantum >= 1
  /\ lastOp = "dispatch"
  /\ Len(arrived) = NumPids
  /\ lastRet = arrived[NumPids]
  /\ dispatched = Pids
  /\ waiting # {}

\* C7: dispatch() on an empty readyQueue returns IDLE and leaves readyQueue,
\* runningPid, quantumClock and quantum unchanged, from every reachable state
\* (so also when it is repeated).
C7_IdleDispatchNoChange ==
  [][ (lastOp' = "dispatch" /\ readyQueue = <<>>)
        => (lastRet' = IDLE /\ UNCHANGED policyVars) ]_vars

\* an idle dispatch was made while a stale runner and a used clock were in place
C7_Witness ==
  /\ lastOp = "dispatch"
  /\ lastRet = IDLE
  /\ readyQueue = <<>>
  /\ runningPid \in Pids
  /\ quantumClock # quantum

\* C8: resetPolicy() leaves readyQueue empty and quantumClock equal to
\* quantum, a dispatch() made right after it returns IDLE, and every pid a
\* later dispatch() returns was registered since that resetPolicy() (the last
\* part stated for quantum >= 1).
C8_ResetClears ==
  /\ [](lastOp = "resetPolicy" => (readyQueue = <<>> /\ quantumClock = quantum))
  /\ [][ (lastOp = "resetPolicy" /\ lastOp' = "dispatch") => lastRet' = IDLE ]_vars
  /\ []((quantum >= 1 /\ lastOp = "dispatch" /\ lastRet # IDLE) => lastRet \in Registered)

\* C9: after resetPolicy() returns, runningPid is IDLE (stated for
\* quantum >= 1).
C9_ResetIdlesRunner ==
  (quantum >= 1 /\ lastOp = "resetPolicy") => runningPid = IDLE

\* C10: preempt() called while runningPid is IDLE returns false and leaves
\* readyQueue, runningPid and quantumClock unchanged (stated for quantum >= 1).
C10_IdlePreemptNoOp ==
  [][ (quantum >= 1 /\ lastOp' = "preempt" /\ runningPid = IDLE)
        => (lastRet' = FALSE /\ UNCHANGED <<readyQueue, runningPid, quantumClock>>) ]_vars

\* C11: for every quantum >= 1, in every state reachable by any sequence of
\* newProcess, dispatch, preempt and resetPolicy calls,
\* 0 <= quantumClock <= quantum.
C11_ClockInRange ==
  (quantum >= 1) => (0 <= quantumClock /\ quantumClock <= quantum)

\* the clock has run from quantum - 1 down to 0 and the runner was preempted
C11_Witness ==
  /\ quantum = MaxQuantum
  /\ lastOp = "preempt"
  /\ lastRet = TRUE
  /\ streak = quantum
  /\ quantumClock = 0

\* C12: a policy is never constructed with quantum <= 0, so a dispatched
\* process never runs with a negative quantumClock (stated at the states
\* right after dispatch() returned a process).
C12_PositiveQuantum ==
  (lastOp = "dispatch" /\ lastRet # IDLE) => (quantum >= 1 /\ quantumClock >= 0)

\* C13: dispatch() on a non-empty readyQueue q returns Head(q) and leaves
\* readyQueue = Tail(q), runningPid = Head(q), quantumClock = quantum - 1 and
\* quantum unchanged.
C13_DispatchEffect ==
  [][ (lastOp' = "dispatch" /\ readyQueue # <<>>)
        => /\ lastRet' = Head(readyQueue)
           /\ readyQueue' = Tail(readyQueue)
           /\ runningPid' = Head(readyQueue)
           /\ quantumClock' = quantum - 1
           /\ quantum' = quantum ]_vars

\* a process was dispatched from a queue that held another entry behind it
C13_Witness ==
  /\ lastOp = "dispatch"
  /\ lastRet \in Pids
  /\ runningPid = lastRet
  /\ readyQueue # <<>>
  /\ quantum >= 1
  /\ quantumClock = quantum - 1

\* C14: preempt() returns true exactly when quantumClock is 0 before the call;
\* when it returns true the previous runningPid is appended at the tail of
\* readyQueue, runningPid becomes IDLE and quantumClock stays 0; when it
\* returns false quantumClock decreases by one and readyQueue and runningPid
\* are unchanged.
C14_PreemptEffect ==
  [][ (lastOp' = "preempt")
        => /\ lastRet' = (quantumClock = 0)
           /\ lastRet' => /\ readyQueue' = Append(readyQueue, runningPid)
                          /\ runningPid' = IDLE
                          /\ quantumClock' = 0
           /\ ~lastRet' => /\ quantumClock' = quantumClock - 1
                           /\ readyQueue' = readyQueue
                           /\ runningPid' = runningPid ]_vars

\* a running process was preempted behind another entry
C14_Witness ==
  /\ lastOp = "preempt"
  /\ lastRet = TRUE
  /\ Len(readyQueue) >= 2
  /\ readyQueue[Len(readyQueue)] \in Pids
  /\ runningPid = IDLE
  /\ quantumClock = 0

\* C15: runningPid changes only in dispatch() and preempt(): newProcess(pid)
\* appends pid at the tail of readyQueue and leaves runningPid, quantumClock
\* and quantum unchanged, and resetPolicy() leaves runningPid unchanged (the
\* appended entry is a registered pid, and the pid just registered when the
\* call registers a new one).
C15_RunnerFrame ==
  [][ /\ (lastOp' = "newProcess")
         => /\ \E pid \in Pids :
                 /\ readyQueue' = Append(readyQueue, pid)
                 /\ pid \in Range(arrived')
                 /\ (Len(arrived') > Len(arrived)) => pid = arrived'[Len(arrived')]
            /\ UNCHANGED <<runningPid, quantumClock, quantum>>
      /\ (lastOp' = "resetPolicy") => runningPid' = runningPid
      /\ (runningPid' # runningPid) => lastOp' \in {"dispatch", "preempt"}
    ]_vars

\* a pid was registered after a reset that left the earlier runner in place
C15_Witness ==
  /\ lastOp = "newProcess"
  /\ runningPid \in Pids
  /\ dispatched = {}
  /\ readyQueue = arrived
  /\ quantumClock = quantum

\* C16: round-robin rotation: with the processes registered in order p1..pn
\* before the first dispatch, no completions, quantum >= 1 and the simulator's
\* call discipline, the first process dispatched is p1 and the process
\* dispatched after a preemption of p is the one after p in p1..pn taken
\* cyclically (for n = 1, p itself); with quantum 3 and pids 1, 2 the dispatch
\* of 2 after the preemption of 1 leaves readyQueue = <<1>>.
C16_Rotation ==
  /\ [][ ((quantum >= 1 /\ lastOp' = "dispatch" /\ readyQueue # <<>>)
            => (lastRet' = Head(readyQueue)
                /\ ((dispatched = {}) => lastRet' = arrived[1])))
         /\ ((quantum >= 1 /\ lastOp' = "preempt" /\ lastRet')
            => Head(readyQueue') = Successor(runningPid))
         /\ ((quantum >= 1 /\ lastOp' = "preempt" /\ ~lastRet')
            => readyQueue' = readyQueue) ]_vars
  /\ []((quantum = 3 /\ arrived = <<1, 2>> /\ lastOp = "dispatch" /\ lastRet = 2)
          => readyQueue = <<1>>)

\* quantum 3, pids 1 and 2: process 2 is dispatched after 1 used its quantum
C16_Witness ==
  /\ quantum = 3
  /\ arrived = <<1, 2>>
  /\ lastOp = "dispatch"
  /\ lastRet = 2
  /\ waiting = {1}
  /\ readyQueue = <<1>>
  /\ quantumClock = 2

\* C17: external completion: once the running process has finished (the
\* simulator stops calling preempt() for it, at any clock value, and calls
\* dispatch() next), it is never an entry of readyQueue and never the process
\* a later dispatch() put on the cpu, for the rest of the run.
C17_FinishedStaysOut ==
  \A p \in finished :
    /\ p \notin Range(readyQueue)
    /\ cpuBusy => runningPid # p

\* after a completion another process has been dispatched
C17_Witness ==
  /\ finished # {}
  /\ cpuBusy
  /\ lastOp = "dispatch"
  /\ lastRet \in Pids \ finished
  /\ runningPid = lastRet

\* C18: right after every dispatch() call runningPid equals the value the
\* call returned, also when it returned IDLE on an empty queue after the
\* previous runner finished externally (stated for that case and
\* quantum >= 1).
C18_RunnerIsReturned ==
  (quantum >= 1 /\ finished # {} /\ lastOp = "dispatch") => runningPid = lastRet

\* C18 as amended: a dispatch() that finds readyQueue non-empty leaves
\* runningPid equal to the value it returns; a dispatch() that finds it empty
\* returns IDLE and leaves runningPid as it was (a dispatch step of the
\* simulator is one taken while the cpu is idle).
C18_RunnerAfterDispatch ==
  [][ (lastOp' = "dispatch" /\ ~cpuBusy)
        => IF readyQueue # <<>>
           THEN runningPid' = lastRet'
           ELSE lastRet' = IDLE /\ runningPid' = runningPid ]_vars

\* dispatch() returned IDLE while runningPid still names the finished process
C18_Witness ==
  /\ lastOp = "dispatch"
  /\ lastRet = IDLE
  /\ ~cpuBusy
  /\ runningPid \in finished

====
